---- MODULE Spec2Model ----
(***************************************************************************)
(* Model of the pipes protocol representation of libsyntax                 *)
(* (src/libsyntax/ext/pipes/proto.rs): a protocol owns an append-only list *)
(* of states, each state owns an append-only list of messages, a message   *)
(* may name a next state, and the queries get_state / has_state /          *)
(* reachable / visit read that structure.                                  *)
(*                                                                         *)
(* A state (@state_) is referred to by its position in protocol.states     *)
(* (1-based, as TLA+ sequences are); its id field is a separate value.     *)
(* Option<T> is a sequence of length at most one: <<>> is None, <<v>> is   *)
(* Some(v).  Option::get() on None and an out-of-bounds index fail the     *)
(* task: the call yields Failure and the task runs no further.             *)
(* span, ident and the payload types are opaque tokens that no operation   *)
(* inspects; they are not represented.                                     *)
(***************************************************************************)
EXTENDS Naturals, Sequences, FiniteSets

VARIABLES
    states,     \* protocol_.states: the registered states, in order
    bounded,    \* protocol_.bounded: Option<bool>
    failed,     \* TRUE once a call has failed the task
    last,       \* the most recent call, its arguments and its outcome
    returned,   \* history: what each add_state_poly call returned
    appended    \* history: per state, the add_message calls in call order

vars == <<states, bounded, failed, last, returned, appended>>

\* ------------------------------------------------------------------ bounds
\* The number of builder calls (add_state_poly and add_message together)
\* made on the protocol.
MaxCalls == 4
\* The longest byte vector handed to to_base64 and the longest text handed
\* to from_base64.
MaxBytes == 4
MaxChars == 8

\* ------------------------------------------------------------------ inputs
direction == {"send", "recv"}
\* The state declarations the front end issues: a sending state A and a
\* receiving state B (each may be declared with or without type parameters,
\* and more than once).
StateDecls == {[name |-> "A", dir |-> "send"], [name |-> "B", dir |-> "recv"]}
Names == {d.name : d \in StateDecls}
MsgNames == {"m1", "m2"}
TyParamLists == {<<>>, <<"T">>}
\* Bytes whose encodings use every range of CHARS, and the texts over a
\* capital, a small letter, '=' and a character outside the alphabet ('!').
Bytes == {0, 102, 111, 211, 251, 255}
TextChars == {90, 103, 61, 33}
ByteVectors == UNION {[1..n -> Bytes] : n \in 0..MaxBytes}
Texts == UNION {[1..n -> TextChars] : n \in 0..MaxChars}

\* Option<T>
None == <<>>
Some(v) == <<v>>

\* Outcome of a call: a returned value, or failure of the task.
Ok(v) == [ok |-> TRUE, val |-> v]
Failure == [ok |-> FALSE]

\* ------------------------------------------------------------ pure helpers
\* Variant of reverse whose two arms both yield recv.
reverse_stuck(d) == "recv"

reverse(d) == IF d = "send" THEN "recv" ELSE "send"

next_state(name) == [state |-> name]

\* message(name, span, data, this, next)
message(name, this, next) == [name |-> name, this |-> this, next |-> next]

\* Variant of find_ that searches a list captured before the newest state was
\* registered.
find_stale(sts, name) ==
    IF \E i \in 1..(Len(sts) - 1) : sts[i].name = name
    THEN Some(CHOOSE i \in 1..(Len(sts) - 1) :
                 /\ sts[i].name = name
                 /\ \A j \in 1..(i - 1) : sts[j].name # name)
    ELSE None

\* Variant of find_ that yields the last match.
find_last(sts, name) ==
    IF \E i \in 1..Len(sts) : sts[i].name = name
    THEN Some(CHOOSE i \in 1..Len(sts) :
                 /\ sts[i].name = name
                 /\ \A j \in (i + 1)..Len(sts) : sts[j].name # name)
    ELSE None

\* states.iter().find_(|i| name == i.name): the first match, as an Option
find_(sts, name) ==
    IF \E i \in 1..Len(sts) : sts[i].name = name
    THEN Some(CHOOSE i \in 1..Len(sts) :
                 /\ sts[i].name = name
                 /\ \A j \in 1..(i - 1) : sts[j].name # name)
    ELSE None

\* Option::get
get(opt) == IF opt = None THEN Failure ELSE Ok(opt[1])

get_state(sts, name) == get(find_(sts, name))

get_state_by_id(sts, id) == IF id < Len(sts) THEN Ok(id + 1) ELSE Failure

\* Variant of has_state that tests is_none instead of is_some.
has_state_is_none(sts, name) == find_(sts, name) = None

has_state(sts, name) == find_(sts, name) # None

num_states(sts) == Len(sts)

RECURSIVE has_ty_params_from(_, _)
has_ty_params_from(sts, i) ==
    IF i > Len(sts) THEN FALSE
    ELSE IF Len(sts[i].generics) > 0 THEN TRUE
    ELSE has_ty_params_from(sts, i + 1)

\* Variant of has_ty_params that inspects the first state only.
has_ty_params_first(sts) == Len(sts) > 0 /\ Len(sts[1].generics) > 0

has_ty_params(sts) == has_ty_params_from(sts, 1)

is_bounded(b) == get(b)

\* Variant of add_state_poly that numbers the states from 1.
add_state_poly_from1(sts, name, dir, generics) ==
    [states |-> Append(sts, [id |-> Len(sts) + 1, name |-> name, dir |-> dir,
                             generics |-> generics, messages |-> <<>>]),
     state |-> Len(sts) + 1]

\* protocol_::add_state_poly: the new list and the returned state
add_state_poly(sts, name, dir, generics) ==
    [states |-> Append(sts, [id |-> Len(sts), name |-> name, dir |-> dir,
                             generics |-> generics, messages |-> <<>>]),
     state |-> Len(sts) + 1]

\* Variant of add_message that puts the new message in front.
add_message_front(sts, self, name, next) ==
    [sts EXCEPT ![self].messages = <<message(name, self, next)>> \o @]

\* Variant of add_message that resolves the transition when the message is
\* added and drops one whose target is not registered.
add_message_eager(sts, self, name, next) ==
    [sts EXCEPT ![self].messages =
        Append(@, message(name, self,
                          IF next # None /\ find_(sts, next[1].state) = None
                          THEN None ELSE next))]

\* Variant of add_message that replaces a message of the same name instead
\* of appending a second one.
add_message_dedup(sts, self, name, next) ==
    IF \E j \in 1..Len(sts[self].messages) : sts[self].messages[j].name = name
    THEN [sts EXCEPT ![self].messages =
             [j \in 1..Len(@) |-> IF @[j].name = name
                                  THEN message(name, self, next) ELSE @[j]]]
    ELSE [sts EXCEPT ![self].messages = Append(@, message(name, self, next))]

\* state_::add_message on the state at position self
add_message(sts, self, name, next) ==
    [sts EXCEPT ![self].messages = Append(@, message(name, self, next))]

\* state_::reachable on the state at position self.  The callback f is
\* described by stopAt: the number of the invocation at which it first
\* returns false (0: it never does); what it would answer afterwards cannot
\* matter, since a false answer ends the loop.
RECURSIVE reachable_from(_, _, _, _, _)
reachable_from(sts, msgs, i, stopAt, visited) ==
    IF i > Len(msgs) THEN [ok |-> TRUE, ret |-> TRUE, visited |-> visited]
    ELSE IF msgs[i].next = None
         THEN reachable_from(sts, msgs, i + 1, stopAt, visited)
         ELSE LET state == get_state(sts, msgs[i].next[1].state) IN
              IF ~state.ok THEN [ok |-> FALSE, visited |-> visited]
              ELSE IF Len(visited) + 1 = stopAt
                   THEN [ok |-> TRUE, ret |-> FALSE,
                         visited |-> Append(visited, state.val)]
                   ELSE reachable_from(sts, msgs, i + 1, stopAt,
                                       Append(visited, state.val))

\* Variant of reachable that ignores the callback's answer.
reachable_nostop(sts, self, stopAt) ==
    reachable_from(sts, sts[self].messages, 1, 0, <<>>)

\* Variant of reachable that goes on into the first target's own transitions.
reachable_recursing(sts, self, stopAt) ==
    LET r == reachable_from(sts, sts[self].messages, 1, stopAt, <<>>) IN
    IF r.ok /\ Len(r.visited) > 0
    THEN [r EXCEPT !.visited =
             @ \o reachable_from(sts, sts[r.visited[1]].messages,
                                 1, 0, <<>>).visited]
    ELSE r

\* Variant of reachable whose final return is false.
reachable_ends_false(sts, self, stopAt) ==
    LET r == reachable_from(sts, sts[self].messages, 1, stopAt, <<>>) IN
    IF r.ok THEN [r EXCEPT !.ret = FALSE] ELSE r

reachable(sts, self, stopAt) ==
    reachable_from(sts, sts[self].messages, 1, stopAt, <<>>)

\* The visitor: the three producers build the term of their arguments, so
\* that the result of visit shows what each producer was handed.
visit_message(name, this, next) == [name |-> name, this |-> this, next |-> next]
visit_state(state, m) == [state |-> state, m |-> m]
visit_proto(st) == [st |-> st]

\* Variant of visit_states that resolves each transition and hands on only
\* those whose target is registered.
visit_states_resolving(sts) ==
    [s \in 1..Len(sts) |->
        visit_state(s, [j \in 1..Len(sts[s].messages) |->
            LET m == sts[s].messages[j] IN
            visit_message(m.name, m.this,
                          IF m.next # None /\ find_(sts, m.next[1].state) = None
                          THEN None ELSE m.next)])]

\* The outer transform of visit: one visit_state result per state.
visit_states(sts) ==
    [s \in 1..Len(sts) |->
        visit_state(s, [j \in 1..Len(sts[s].messages) |->
            LET m == sts[s].messages[j] IN
            visit_message(m.name, m.this, m.next)])]

\* Variant of visit that follows each transition to its target state and
\* emits a result for the target as well.
HasTransition(r) == \E j \in 1..Len(r.m) : r.m[j].next # None
visit_following(sts) ==
    visit_proto(visit_states(sts) \o SelectSeq(visit_states(sts), HasTransition))

visit(sts) == visit_proto(visit_states(sts))

\* The calls visit makes on the visitor, in the order it makes them.  The
\* transforms are lazy: collecting the outer one runs, for each state in
\* turn, the inner collect over its messages and then visit_state.
visit_message_calls(sts, s) ==
    [j \in 1..Len(sts[s].messages) |->
        LET m == sts[s].messages[j] IN
        [fn |-> "visit_message", name |-> m.name, this |-> m.this,
         next |-> m.next]]

visit_state_call(sts, s) ==
    [fn |-> "visit_state", state |-> s, m |-> visit_states(sts)[s].m]

\* Variant of visit_calls that makes a first pass over all messages and a
\* second pass over the states.
RECURSIVE all_message_calls(_, _)
all_message_calls(sts, s) ==
    IF s > Len(sts) THEN <<>>
    ELSE visit_message_calls(sts, s) \o all_message_calls(sts, s + 1)
visit_calls_two_passes(sts) ==
    all_message_calls(sts, 1)
    \o [s \in 1..Len(sts) |-> visit_state_call(sts, s)]
    \o <<[fn |-> "visit_proto", st |-> visit_states(sts)]>>

RECURSIVE visit_calls_from(_, _)
visit_calls_from(sts, s) ==
    IF s > Len(sts) THEN <<[fn |-> "visit_proto", st |-> visit_states(sts)]>>
    ELSE visit_message_calls(sts, s) \o <<visit_state_call(sts, s)>>
         \o visit_calls_from(sts, s + 1)

visit_calls(sts) == visit_calls_from(sts, 1)

\* ------------------------------------------------------------------ base64
\* libextra/base64.rs.  Bytes and characters are their codes (61 is '=');
\* a ~str or a vector is a sequence.  n is a uint holding at most 24 bits, so
\* shifts are exact and the ors, whose operands share no bit, are sums.
CHARS == [i \in 1..64 |->
             IF i <= 26 THEN 64 + i          \* 'A'..'Z'
             ELSE IF i <= 52 THEN 70 + i     \* 'a'..'z'
             ELSE IF i <= 62 THEN i - 5      \* '0'..'9'
             ELSE IF i = 63 THEN 43          \* '+'
             ELSE 47]                        \* '/'

\* CHARS[(n >> sh) & 63]
Sextet(n, sh) == CHARS[((n \div (2 ^ sh)) % 64) + 1]

\* the while loop of to_base64: whole groups of three bytes, from index i
RECURSIVE to_base64_groups(_, _, _)
to_base64_groups(bytes, i, s) ==
    IF i < Len(bytes) - (Len(bytes) % 3)
    THEN LET n == bytes[i + 1] * 65536 + bytes[i + 2] * 256 + bytes[i + 3] IN
         to_base64_groups(bytes, i + 3,
             s \o <<Sextet(n, 18), Sextet(n, 12), Sextet(n, 6), Sextet(n, 0)>>)
    ELSE s

\* the match on len % 3 that follows the loop
to_base64_rest(bytes) ==
    LET i == Len(bytes) - (Len(bytes) % 3) IN
    IF Len(bytes) % 3 = 1
    THEN LET n == bytes[i + 1] * 65536 IN
         <<Sextet(n, 18), Sextet(n, 12), 61, 61>>
    ELSE IF Len(bytes) % 3 = 2
    THEN LET n == bytes[i + 1] * 65536 + bytes[i + 2] * 256 IN
         <<Sextet(n, 18), Sextet(n, 12), Sextet(n, 6), 61>>
    ELSE <<>>

\* Variant of to_base64 that leaves the padding out.
to_base64_nopad(bytes) ==
    SelectSeq(to_base64_groups(bytes, 0, <<>>) \o to_base64_rest(bytes),
              LAMBDA c : c # 61)

to_base64(bytes) == to_base64_groups(bytes, 0, <<>>) \o to_base64_rest(bytes)

\* (n >> sh) & 0xFF
Octet(n, sh) == (n \div (2 ^ sh)) % 256

\* The loops of from_base64 from index i: k characters of the current group
\* of four are in n, r holds the bytes pushed so far.
RECURSIVE from_base64_loop(_, _, _, _, _)
from_base64_loop(text, i, k, n, r) ==
    IF k = 4
    THEN from_base64_loop(text, i, 0, 0,
                          r \o <<Octet(n, 16), Octet(n, 8), Octet(n, 0)>>)
    ELSE IF k = 0 /\ ~(i < Len(text)) THEN Ok(r)
    ELSE LET ch == text[i + 1]
             sh == n * 64
         IN  IF ch \in 65..90
             THEN from_base64_loop(text, i + 1, k + 1, sh + (ch - 65), r)
             ELSE IF ch \in 97..122
             THEN from_base64_loop(text, i + 1, k + 1, sh + (ch - 71), r)
             ELSE IF ch \in 48..57
             THEN from_base64_loop(text, i + 1, k + 1, sh + (ch + 4), r)
             ELSE IF ch = 43
             THEN from_base64_loop(text, i + 1, k + 1, sh + 62, r)
             ELSE IF ch = 47
             THEN from_base64_loop(text, i + 1, k + 1, sh + 63, r)
             ELSE IF ch = 61
             THEN IF Len(text) - i = 1
                  THEN Ok(r \o <<Octet(sh, 16), Octet(sh, 8)>>)
                  ELSE IF Len(text) - i = 2
                  THEN Ok(r \o <<Octet(sh, 10)>>)
                  ELSE Failure
             ELSE Failure

from_base64(text) ==
    IF Len(text) % 4 # 0 THEN Failure
    ELSE from_base64_loop(text, 0, 0, 0, <<>>)

\* ------------------------------------------------------------------- state
Init ==
    /\ states = <<>>
    /\ bounded = None
    /\ failed = FALSE
    /\ last = [op |-> "protocol"]
    /\ returned = <<>>
    /\ appended = <<>>

RECURSIVE SumLen(_, _)
SumLen(sts, i) == IF i > Len(sts) THEN 0
                  ELSE Len(sts[i].messages) + SumLen(sts, i + 1)
NumMessages == SumLen(states, 1)
NumCalls == Len(states) + NumMessages

Registered(name) == \E i \in 1..Len(states) : states[i].name = name

\* An add_message call that has just given a state a transition to this
\* name while no state of this name was registered: Some(that state).
JustLeftDangling(name) ==
    IF /\ last.op = "add_message"
       /\ states[last.self].messages[Len(states[last.self].messages)].next
              = Some(next_state(name))
       /\ ~Registered(name)
    THEN Some(last.self) ELSE None

\* A has_state probe that has just found no state of this name.
JustMissed(name) ==
    /\ last.op = "has_state"
    /\ last.name = name
    /\ ~last.ret

AddState(name, dir, generics) ==
    /\ ~failed
    /\ NumCalls < MaxCalls
    /\ LET r == add_state_poly(states, name, dir, generics) IN
        /\ states' = r.states
        /\ last' = [op |-> "add_state_poly", name |-> name, ret |-> r.state,
                    afterMiss |-> JustMissed(name),
                    resolves |-> JustLeftDangling(name)]
        /\ returned' = Append(returned,
                              [state |-> r.state, id |-> r.states[r.state].id])
    /\ appended' = Append(appended, <<>>)
    /\ UNCHANGED <<bounded, failed>>

AddMessage(self, name, next) ==
    /\ ~failed
    /\ NumCalls < MaxCalls
    /\ states' = add_message(states, self, name, next)
    /\ last' = [op |-> "add_message", self |-> self]
    /\ appended' = [appended EXCEPT
                       ![self] = Append(@, [name |-> name, next |-> next])]
    /\ UNCHANGED <<bounded, failed, returned>>

\* The owner of the protocol assigns the bounded field.
SetBounded(b) ==
    /\ ~failed
    /\ bounded' = Some(b)
    /\ last' = [op |-> "set_bounded"]
    /\ UNCHANGED <<states, failed, returned, appended>>

GetState(name) ==
    /\ ~failed
    /\ LET r == get_state(states, name) IN
        /\ last' = [op |-> "get_state", name |-> name, out |-> r,
                    afterMiss |-> /\ last.op = "add_state_poly"
                                  /\ last.name = name
                                  /\ last.afterMiss]
        /\ failed' = ~r.ok
    /\ UNCHANGED <<states, bounded, returned, appended>>

GetStateById(id) ==
    /\ ~failed
    /\ LET r == get_state_by_id(states, id) IN
        /\ last' = [op |-> "get_state_by_id", id |-> id, out |-> r]
        /\ failed' = ~r.ok
    /\ UNCHANGED <<states, bounded, returned, appended>>

HasState(name) ==
    /\ ~failed
    /\ last' = [op |-> "has_state", name |-> name,
                ret |-> has_state(states, name)]
    /\ UNCHANGED <<states, bounded, failed, returned, appended>>

NumStates ==
    /\ ~failed
    /\ last' = [op |-> "num_states", ret |-> num_states(states)]
    /\ UNCHANGED <<states, bounded, failed, returned, appended>>

HasTyParams ==
    /\ ~failed
    /\ last' = [op |-> "has_ty_params", ret |-> has_ty_params(states)]
    /\ UNCHANGED <<states, bounded, failed, returned, appended>>

IsBounded ==
    /\ ~failed
    /\ LET r == is_bounded(bounded) IN
        /\ last' = [op |-> "is_bounded", out |-> r]
        /\ failed' = ~r.ok
    /\ UNCHANGED <<states, bounded, returned, appended>>

Reachable(self, stopAt) ==
    /\ ~failed
    /\ LET r == reachable(states, self, stopAt) IN
        /\ last' = [op |-> "reachable", self |-> self, stopAt |-> stopAt,
                    out |-> r,
                    late |-> IF /\ last.op = "add_state_poly"
                                /\ last.resolves = Some(self)
                             THEN Some(last.ret) ELSE None]
        /\ failed' = ~r.ok
    /\ UNCHANGED <<states, bounded, returned, appended>>

\* Variant of Visit that takes the state vector out of the protocol instead
\* of copying it.
Visit_taking ==
    /\ ~failed
    /\ last' = [op |-> "visit", ret |-> visit(states),
                calls |-> visit_calls(states)]
    /\ states' = <<>>
    /\ returned' = <<>>
    /\ appended' = <<>>
    /\ UNCHANGED <<bounded, failed>>

Visit ==
    /\ ~failed
    /\ last' = [op |-> "visit", ret |-> visit(states),
                calls |-> visit_calls(states)]
    /\ UNCHANGED <<states, bounded, failed, returned, appended>>

Reverse(d) ==
    /\ ~failed
    /\ last' = [op |-> "reverse", d |-> d, ret |-> reverse(d),
                twice |-> reverse(reverse(d))]
    /\ UNCHANGED <<states, bounded, failed, returned, appended>>

\* The builder calls of the front end.
Build ==
    \/ \E d \in StateDecls, g \in TyParamLists : AddState(d.name, d.dir, g)
    \/ \E s \in 1..Len(states), n \in MsgNames,
          nx \in {None} \cup {Some(next_state(t)) : t \in Names} :
             AddMessage(s, n, nx)

\* The lookups and counts of impl protocol_, and the reversal of a
\* direction.  An id one past the last state
\* is the out-of-bounds case of get_state_by_id.
Lookup ==
    \/ \E n \in Names : GetState(n)
    \/ \E id \in 0..Len(states) : GetStateById(id)
    \/ \E n \in Names : HasState(n)
    \/ NumStates
    \/ HasTyParams
    \/ \E d \in direction : Reverse(d)

\* The bounded flag.
Flag ==
    \/ \E b \in BOOLEAN : SetBounded(b)
    \/ IsBounded

\* The walks over the protocol.  A callback that first returns false at an
\* invocation beyond the number of messages is never invoked that often, and
\* acts as one that never returns false.
Walk ==
    \/ \E s \in 1..Len(states) :
          \E k \in 0..Len(states[s].messages) : Reachable(s, k)
    \/ Visit

\* A protocol under construction, used by a client of the lookups, of the
\* flag, of the walks, and of all of them.
NextLookup == Build \/ Lookup
NextFlag == Build \/ Flag
NextWalk == Build \/ Walk
Next == Build \/ Lookup \/ Flag \/ Walk

\* The life cycle the front end and the back ends follow: the protocol is
\* built and its flag may be set, and once the first query has run no builder
\* call is made any more.  This front end gives every message the same name.
Building ==
    last.op \in {"protocol", "add_state_poly", "add_message", "set_bounded"}
NextFrozen ==
    \/ Building /\ \E d \in StateDecls, g \in TyParamLists :
                       AddState(d.name, d.dir, g)
    \/ Building /\ \E s \in 1..Len(states),
                       nx \in {None} \cup {Some(next_state(t)) : t \in Names} :
                          AddMessage(s, CHOOSE n \in MsgNames : TRUE, nx)
    \/ Building /\ \E b \in BOOLEAN : SetBounded(b)
    \/ Lookup
    \/ IsBounded
    \/ Walk

SpecLookup == Init /\ [][NextLookup]_vars
SpecFrozen == Init /\ [][NextFrozen]_vars
SpecFlag == Init /\ [][NextFlag]_vars
SpecWalk == Init /\ [][NextWalk]_vars
Spec == Init /\ [][Next]_vars

\* The codec: a caller holds a byte vector or a text, encodes the vector,
\* and decodes the text or the encoding it has just obtained.
InitCodec ==
    /\ states = <<>>
    /\ bounded = None
    /\ failed = FALSE
    /\ last \in {[op |-> "bytes", data |-> b] : b \in ByteVectors}
               \cup {[op |-> "text", data |-> t] : t \in Texts}
    /\ returned = <<>>
    /\ appended = <<>>

ToBase64 ==
    /\ ~failed
    /\ last.op = "bytes"
    /\ last' = [op |-> "to_base64", data |-> last.data,
                ret |-> to_base64(last.data)]
    /\ UNCHANGED <<states, bounded, failed, returned, appended>>

FromBase64 ==
    /\ ~failed
    /\ last.op \in {"text", "to_base64"}
    /\ LET text == IF last.op = "text" THEN last.data ELSE last.ret
           r == from_base64(text)
       IN  /\ last' = [op |-> "from_base64", data |-> text, out |-> r,
                       src |-> last]
           /\ failed' = ~r.ok
    /\ UNCHANGED <<states, bounded, returned, appended>>

NextCodec == ToBase64 \/ FromBase64

SpecCodec == InitCodec /\ [][NextCodec]_vars

\* ------------------------------------------------------------------ claims

\* C1: the k-th add_state_poly call (counting from 0) returned the state with
\* id k, that state sits at position k of the state list, and its id is still
\* k after every later builder call; get_state_by_id(k) yields it.
C1_IdIsInsertionIndex ==
    /\ Len(returned) = Len(states)
    /\ \A k \in 1..Len(returned) :
        /\ returned[k].state = k
        /\ returned[k].id = k - 1
        /\ states[k].id = k - 1
        /\ get_state_by_id(states, k - 1) = Ok(k)

C1_Witness ==
    /\ Len(states) >= 2
    /\ last.op = "add_message"
    /\ states[1].id = 0 /\ states[2].id = 1

\* C2: get_state(name) for a name some registered state carries returns a
\* state of the current list with that name (the only one when the name is
\* unique, the earliest otherwise), also when the state was registered after
\* a lookup that found nothing.
C2_GetStateSeesCurrentList ==
    (last.op = "get_state" /\ Registered(last.name)) =>
        /\ last.out.ok
        /\ last.out.val \in 1..Len(states)
        /\ states[last.out.val].name = last.name
        /\ \A j \in 1..(last.out.val - 1) : states[j].name # last.name

C2_Witness ==
    /\ last.op = "get_state"
    /\ last.afterMiss
    /\ last.out.ok
    /\ last.out.val = Len(states)
    /\ Len(states) >= 2

\* C3: get_state(name) for a name no registered state carries hands an error
\* value back to the caller and the protocol stays usable: the task has not
\* failed.
C3_UnknownStateIsAValue ==
    (last.op = "get_state" /\ ~Registered(last.name)) => ~failed

\* C4: in the result of visit, the message results handed to visit_state for
\* a state are those of its add_message calls, in call order, one per call.
C4_MessageOrderPreserved ==
    last.op = "visit" =>
        /\ Len(last.ret.st) = Len(states)
        /\ \A s \in 1..Len(states) :
            LET m == last.ret.st[s].m IN
            /\ Len(m) = Len(appended[s])
            /\ \A j \in 1..Len(m) :
                m[j] = visit_message(appended[s][j].name, s,
                                     appended[s][j].next)

C4_Witness ==
    /\ last.op = "visit"
    /\ \E s \in 1..Len(states) :
        /\ Len(appended[s]) >= 2
        /\ appended[s][1] # appended[s][2]
        /\ last.ret.st[s].m[1].name = appended[s][1].name

\* The messages of a state that carry a transition, in declaration order.
CarriesTransition(m) == m.next # None
Transitions(s) == SelectSeq(states[s].messages, CarriesTransition)
Min(S) == CHOOSE x \in S : \A y \in S : x <= y
NoRepeats(seq) ==
    \A i, j \in 1..Len(seq) : i # j => seq[i] # seq[j]

\* C5 as stated: a reachable call that ran to completion visited distinct
\* targets, each once.
C5_VisitsDistinctTargets ==
    (last.op = "reachable" /\ last.out.ok /\ last.out.ret) =>
        NoRepeats(last.out.visited)

\* C5, amended: reachable invokes the callback once per message that carries
\* a transition, in declaration order and without removing repeated targets,
\* up to and including the first invocation that returns false (then it
\* returns false) or up to the first transition whose target is not registered
\* (then the call fails); otherwise it returns true.
C5_VisitsEachTransition ==
    last.op = "reachable" =>
        LET T == Transitions(last.self)
            target(i) == find_(states, T[i].next[1].state)
            unknown == {i \in 1..Len(T) : target(i) = None}
            firstUnknown == IF unknown = {} THEN Len(T) + 1 ELSE Min(unknown)
            stopped == last.stopAt \in 1..(firstUnknown - 1)
            n == IF stopped THEN last.stopAt ELSE firstUnknown - 1
        IN  /\ Len(last.out.visited) = n
            /\ \A i \in 1..n : last.out.visited[i] = target(i)[1]
            /\ IF stopped THEN last.out.ok /\ ~last.out.ret
               ELSE IF firstUnknown <= Len(T) THEN ~last.out.ok
               ELSE last.out.ok /\ last.out.ret

C5_Witness ==
    /\ last.op = "reachable"
    /\ last.out.ok
    /\ ~last.out.ret
    /\ Len(last.out.visited) = 1
    /\ Len(Transitions(last.self)) = 2

\* The messages of state s whose transition resolves to s itself.
SelfLoops(s) ==
    {j \in 1..Len(states[s].messages) :
        /\ states[s].messages[j].next # None
        /\ find_(states, states[s].messages[j].next[1].state) = Some(s)}
Occurrences(seq, x) == Cardinality({i \in 1..Len(seq) : seq[i] = x})

\* C6: a reachable call that runs to completion on a state with a self-loop
\* hands that state to the callback once per self-loop message (exactly once
\* for one such message) and returns: it does not go on into the target's own
\* transitions.
C6_SelfLoopVisitedOnce ==
    (last.op = "reachable" /\ last.stopAt = 0 /\ last.out.ok) =>
        /\ last.out.ret
        /\ Occurrences(last.out.visited, last.self)
               = Cardinality(SelfLoops(last.self))

C6_Witness ==
    /\ last.op = "reachable"
    /\ last.stopAt = 0
    /\ last.out.ok
    /\ Cardinality(SelfLoops(last.self)) = 1
    /\ Occurrences(last.out.visited, last.self) = 1

\* State a has a message whose transition resolves to state b.
Transits(a, b) ==
    \E j \in 1..Len(states[a].messages) :
        /\ states[a].messages[j].next # None
        /\ find_(states, states[a].messages[j].next[1].state) = Some(b)

\* C7: visit yields exactly one state result per registered state, in
\* registration order, whatever the transitions are (cycles included).
C7_OneResultPerState ==
    last.op = "visit" =>
        /\ Len(last.ret.st) = Len(states)
        /\ \A s \in 1..Len(states) : last.ret.st[s].state = s

C7_Witness ==
    /\ last.op = "visit"
    /\ \E a, b \in 1..Len(states) :
        a # b /\ Transits(a, b) /\ Transits(b, a)
    /\ Len(last.ret.st) = 2

\* C8: is_bounded() reports an error value and does not fail the task when
\* the flag has never been set, and returns b once the flag has been set to b.
C8_IsBoundedNeverAborts ==
    last.op = "is_bounded" =>
        /\ ~failed
        /\ bounded # None => last.out = Ok(bounded[1])

\* C9: has_ty_params() is true exactly when some registered state has a
\* non-empty type-parameter list.
C9_HasTyParams ==
    last.op = "has_ty_params" =>
        (last.ret <=> \E i \in 1..Len(states) : states[i].generics # <<>>)

C9_Witness ==
    /\ last.op = "has_ty_params"
    /\ last.ret
    /\ Len(states) >= 2
    /\ states[1].generics = <<>>

\* C10: has_state(name) does not fail and returns true exactly when a state
\* of that name is registered, which is exactly when get_state(name) returns
\* a state instead of failing.
C10_HasStateAgreesWithGetState ==
    last.op = "has_state" =>
        /\ ~failed
        /\ last.ret <=> Registered(last.name)
        /\ last.ret <=> get_state(states, last.name).ok

C10_Witness ==
    /\ last.op = "has_state"
    /\ last.ret
    /\ Len(states) >= 2
    /\ states[1].name # last.name

\* The number of '=' characters that end a text.
RECURSIVE TrailingPads(_)
TrailingPads(text) ==
    IF text # <<>> /\ text[Len(text)] = 61
    THEN 1 + TrailingPads(SubSeq(text, 1, Len(text) - 1))
    ELSE 0

\* C14: to_base64(b) has 4 * ceil(len(b) / 3) characters, of which exactly
\* the last (3 - len(b) % 3) % 3 are '=', and from_base64 of it is b.
C14_Base64RoundTrip ==
    /\ last.op = "to_base64" =>
        /\ Len(last.ret) = 4 * ((Len(last.data) + 2) \div 3)
        /\ TrailingPads(last.ret) = (3 - (Len(last.data) % 3)) % 3
        /\ \A i \in 1..(Len(last.ret) - TrailingPads(last.ret)) :
               last.ret[i] # 61
    /\ (last.op = "from_base64" /\ last.src.op = "to_base64") =>
        last.out = Ok(last.src.data)

C14_Witness ==
    /\ last.op = "from_base64"
    /\ last.src.op = "to_base64"
    /\ Len(last.src.data) = 4
    /\ TrailingPads(last.data) = 2
    /\ last.out = Ok(last.src.data)

Alphabet == (65..90) \cup (97..122) \cup (48..57) \cup {43, 47}

\* C18: from_base64 fails for a text whose length is not a multiple of 4,
\* that holds a character outside the alphabet and '=', or that holds a '='
\* before its last two characters; for any other text it returns 3 bytes per
\* 4 characters less one per trailing '='.
C18_RejectsMalformed ==
    last.op = "from_base64" =>
        LET text == last.data
            malformed ==
                \/ Len(text) % 4 # 0
                \/ \E i \in 1..Len(text) : text[i] \notin Alphabet \cup {61}
                \/ \E i \in 1..(Len(text) - 2) : text[i] = 61
        IN  IF malformed THEN ~last.out.ok
            ELSE /\ last.out.ok
                 /\ Len(last.out.val)
                        = 3 * (Len(text) \div 4) - TrailingPads(text)

\* C11: a state without messages gets a state result with an empty message
\* sequence and no visit_message call (for the protocol of one such state:
\* one state result, and visit_state and visit_proto are the only calls);
\* reachable on it never invokes the callback and returns true.
C11_StateWithoutMessages ==
    /\ last.op = "visit" =>
        /\ \A s \in 1..Len(states) :
            states[s].messages = <<>> =>
                /\ last.ret.st[s].m = <<>>
                /\ \A c \in 1..Len(last.calls) :
                    last.calls[c].fn = "visit_message"
                        => last.calls[c].this # s
        /\ (Len(states) = 1 /\ states[1].messages = <<>>) =>
                /\ last.ret = visit_proto(<<visit_state(1, <<>>)>>)
                /\ Len(last.calls) = 2
    /\ (last.op = "reachable" /\ states[last.self].messages = <<>>) =>
        /\ last.out.ok
        /\ last.out.ret
        /\ last.out.visited = <<>>

C11_Witness ==
    /\ last.op = "reachable"
    /\ Len(states) = 1
    /\ states[1].messages = <<>>
    /\ last.out.ok /\ last.out.ret
    /\ last.out.visited = <<>>

\* C12: reverse is defined on both directions, maps send to recv and recv to
\* send, and applied twice gives the direction back.
C12_ReverseInvolutive ==
    last.op = "reverse" =>
        /\ last.ret \in direction
        /\ last.ret # last.d
        /\ last.d = "send" => last.ret = "recv"
        /\ last.d = "recv" => last.ret = "send"
        /\ last.twice = last.d

C12_Witness ==
    /\ last.op = "reverse"
    /\ last.d = "recv"
    /\ last.ret = "send"
    /\ last.twice = "recv"

\* The position, among the calls of visit, of visit_state for state s.
RECURSIVE StateCallPos(_)
StateCallPos(s) ==
    IF s = 0 THEN 0 ELSE StateCallPos(s - 1) + Len(appended[s]) + 1

\* C15: visit calls visit_message once per message, for each state in
\* registration order and each of its messages in declaration order with the
\* state as owner, then visit_state for that state with the results, before
\* it goes on to the next state; visit_proto is the last call and gets the
\* state results in registration order.
C15_VisitCallOrder ==
    last.op = "visit" =>
        LET c == last.calls
            n == Len(states)
        IN  /\ Len(c) = StateCallPos(n) + 1
            /\ c[Len(c)].fn = "visit_proto"
            /\ Len(c[Len(c)].st) = n
            /\ \A s \in 1..n :
                LET results == [j \in 1..Len(appended[s]) |->
                                   visit_message(appended[s][j].name, s,
                                                 appended[s][j].next)]
                IN  /\ c[StateCallPos(s)] =
                           [fn |-> "visit_state", state |-> s, m |-> results]
                    /\ c[Len(c)].st[s] = visit_state(s, results)
                    /\ \A j \in 1..Len(appended[s]) :
                        c[StateCallPos(s - 1) + j] =
                            [fn |-> "visit_message",
                             name |-> appended[s][j].name, this |-> s,
                             next |-> appended[s][j].next]

C15_Witness ==
    /\ last.op = "visit"
    /\ Len(states) >= 2
    /\ Len(appended[1]) >= 1
    /\ Len(appended[2]) >= 1
    /\ last.calls[Len(appended[1]) + 1].fn = "visit_state"

\* The positions, in the message list of state s, of the messages that carry
\* a transition.
TransitionIdx(s) ==
    SelectSeq([j \in 1..Len(states[s].messages) |-> j],
              LAMBDA j : states[s].messages[j].next # None)

\* C16: add_message stores the transition as given, whether or not its target
\* is registered, and does not fail; reachable resolves it when it runs: when
\* the target of the state's newest message was registered only after that
\* message was added, reachable hands the callback that later state, and it
\* completes when every target is registered by then and the callback never
\* returns false.  (last.late holds the later state in that case.)
C16_LazyResolution ==
    /\ \A s \in 1..Len(states) :
        /\ Len(states[s].messages) = Len(appended[s])
        /\ \A j \in 1..Len(appended[s]) :
            states[s].messages[j].next = appended[s][j].next
    /\ last.op = "add_message" => ~failed
    /\ (last.op = "reachable" /\ last.late # None) =>
        LET s == last.self
            idx == TransitionIdx(s)
            t == last.late[1]
        IN  /\ idx # <<>>
            /\ idx[Len(idx)] = Len(states[s].messages)
            /\ t = Len(states)
            /\ states[t].name
                   = states[s].messages[Len(states[s].messages)].next[1].state
            /\ Len(last.out.visited) = Len(idx)
                   => last.out.visited[Len(idx)] = t
            /\ (/\ last.stopAt = 0
                /\ \A k \in 1..Len(idx) :
                    Registered(states[s].messages[idx[k]].next[1].state)) =>
                    /\ last.out.ok
                    /\ Len(last.out.visited) = Len(idx)

C16_Witness ==
    /\ last.op = "reachable"
    /\ last.late # None
    /\ last.out.ok
    /\ last.out.visited # <<>>
    /\ last.out.visited[Len(last.out.visited)] = last.late[1]
    /\ last.late[1] # last.self

\* C17: add_state_poly makes num_states() one larger and leaves every state
\* registered before as it was; add_message on state s makes the message list
\* of s one longer, also when the name is already used, keeps the earlier
\* messages of s in place and leaves the state list, the other fields of s
\* and every other state unchanged.
C17_AppendOnly ==
    [][/\ last'.op = "add_state_poly" =>
            /\ num_states(states') = num_states(states) + 1
            /\ SubSeq(states', 1, Len(states)) = states
       /\ last'.op = "add_message" =>
            LET s == last'.self
                old == states[s].messages
            IN  /\ Len(states') = Len(states)
                /\ \A t \in 1..Len(states) : t # s => states'[t] = states[t]
                /\ Len(states'[s].messages) = Len(old) + 1
                /\ SubSeq(states'[s].messages, 1, Len(old)) = old
                /\ [states'[s] EXCEPT !.messages = old] = states[s]
      ]_vars

C17_Witness ==
    /\ last.op = "add_message"
    /\ Len(states) >= 2
    /\ Len(states[last.self].messages) = 2
    /\ states[last.self].messages[1].name = states[last.self].messages[2].name

\* State s has a message whose transition names no registered state.
HasDangling(s) ==
    \E j \in 1..Len(states[s].messages) :
        /\ states[s].messages[j].next # None
        /\ ~Registered(states[s].messages[j].next[1].state)

\* C20: visit does not fail and hands every transition to visit_message as
\* it was given to add_message, a transition to an unregistered state
\* included; reachable fails only on a state that has such a transition, and
\* does fail on it when the callback never returns false.
C20_VisitNeverResolves ==
    /\ last.op = "visit" =>
        /\ ~failed
        /\ Len(last.ret.st) = Len(states)
        /\ \A s \in 1..Len(states) :
            /\ Len(last.ret.st[s].m) = Len(appended[s])
            /\ \A j \in 1..Len(appended[s]) :
                last.ret.st[s].m[j].next = appended[s][j].next
    /\ last.op = "reachable" =>
        /\ ~last.out.ok => HasDangling(last.self)
        /\ (HasDangling(last.self) /\ last.stopAt = 0) =>
               ~last.out.ok /\ failed

C20_Witness ==
    /\ last.op = "visit"
    /\ ~failed
    /\ \E s \in 1..Len(states) :
        /\ HasDangling(s)
        /\ \E j \in 1..Len(states[s].messages) :
            /\ last.ret.st[s].m[j].next # None
            /\ ~Registered(last.ret.st[s].m[j].next[1].state)

Queries == {"get_state", "get_state_by_id", "has_state", "num_states",
            "has_ty_params", "is_bounded", "reachable", "visit", "reverse"}

\* C13: once construction is complete, a step of get_state, has_state,
\* num_states, has_ty_params, is_bounded, reachable or visit leaves the state
\* list (every state's id, name, direction, generics and messages) and the
\* bounded flag as they were, so that a query returns the same whatever
\* queries ran before it.
C13_QueriesLeaveProtocolUnchanged ==
    [][last'.op \in Queries =>
           /\ states' = states
           /\ bounded' = bounded
           /\ ~Building'
      ]_vars

C13_Witness ==
    /\ last.op = "visit"
    /\ Len(states) >= 2
    /\ NumMessages >= 1
    /\ bounded # None
    /\ last.ret = visit(states)

\* C19: when several registered states carry one name, get_state and the
\* resolution of a transition in reachable yield the one registered first;
\* the later ones are still counted by num_states, returned by
\* get_state_by_id and given a state result by visit.
C19_EarliestOfDuplicates ==
    /\ (last.op = "get_state" /\ last.out.ok) =>
        \A j \in 1..Len(states) :
            states[j].name = last.name => last.out.val <= j
    /\ last.op = "reachable" =>
        \A k \in 1..Len(last.out.visited) :
            \A j \in 1..Len(states) :
                states[j].name = states[last.out.visited[k]].name
                    => last.out.visited[k] <= j
    /\ last.op = "num_states" => last.ret = Len(returned)
    /\ (last.op = "get_state_by_id" /\ last.id < Len(returned)) =>
        /\ last.out = Ok(returned[last.id + 1].state)
        /\ states[last.out.val].id = last.id
    /\ last.op = "visit" =>
        /\ Len(last.ret.st) = Len(returned)
        /\ \A s \in 1..Len(returned) : last.ret.st[s].state = returned[s].state

C19_Witness ==
    /\ last.op = "get_state"
    /\ last.out.ok
    /\ last.out.val = 1
    /\ Len(states) >= 2
    /\ states[2].name = last.name
====
